---- MODULE Spec2Model ----
(***************************************************************************)
(* PhysicianNotetakerPipeline (src/medical_pipeline.py): a rule-based      *)
(* medical summary, a sentiment/intent classification of one patient line  *)
(* and a SOAP note of seven fields, merged by run_full_analysis.           *)
(*                                                                         *)
(* A Python str is a sequence of one-character strings, so that lower(),   *)
(* strip(), the `in` test and the regular expressions are computed on      *)
(* characters as the interpreter computes them.                            *)
(***************************************************************************)
EXTENDS Integers, Sequences, FiniteSets, TLC

\* ------------------------------------------------------------------------
\* Bounds of the input space
\* ------------------------------------------------------------------------
\* longest generated transcript, in lines
MaxLines == 2
\* longest transcript a caller hands to generate_medical_summary directly
MaxProbeLines == 1

\* ------------------------------------------------------------------------
\* State: the pipeline object, one call of run_full_analysis, the caller
\* ------------------------------------------------------------------------
VARIABLES
  zero_shot_classifier,  \* self.zero_shot_classifier: the loaded classifier
  soap_generator,        \* self.soap_generator: the loaded generator
  pc,                    \* "idle", "running" (inside run_full_analysis), "done", "aborted"
  full_transcript,       \* the transcript handed to run_full_analysis
  summary,               \* run_full_analysis: summary
  sent_pc,               \* analyze_sentiment_intent: "start", "intent", "returned"
  expressive_line,       \* analyze_sentiment_intent: expressive_line
  sentiment_label,       \* analyze_sentiment_intent: sentiment
  sentiment,             \* run_full_analysis: sentiment
  soap_fields,           \* generate_soap_note: the field values computed so far
  soap_note,             \* run_full_analysis: soap_note
  result,                \* what run_full_analysis returned to its caller
  raised,                \* the capability whose exception is propagating
  classifier_calls,      \* invocations of the classifier in this run
  generator_calls,       \* invocations of the generator in this run
  held                   \* a summary a caller got from generate_medical_summary

vars == <<zero_shot_classifier, soap_generator, pc, full_transcript, summary, sent_pc,
          expressive_line, sentiment_label, sentiment, soap_fields, soap_note,
          result, raised, classifier_calls, generator_calls, held>>

models == <<zero_shot_classifier, soap_generator>>

None == [none |-> TRUE]

\* ------------------------------------------------------------------------
\* Python str operations
\* ------------------------------------------------------------------------
Min(S) == CHOOSE x \in S : \A y \in S : x <= y
Max(S) == CHOOSE x \in S : \A y \in S : x >= y

\* the characters str.strip() removes and \s matches
Whitespace == {" ", "\t", "\n", "\r"}

UpperCase == <<"A", "B", "C", "D", "E", "F", "G", "H", "I", "J", "K", "L", "M", "N", "O", "P", "Q", "R", "S", "T", "U", "V", "W", "X", "Y", "Z">>
LowerCase == <<"a", "b", "c", "d", "e", "f", "g", "h", "i", "j", "k", "l", "m", "n", "o", "p", "q", "r", "s", "t", "u", "v", "w", "x", "y", "z">>

lower_char(c) ==
  IF \E i \in DOMAIN UpperCase : UpperCase[i] = c
  THEN LowerCase[CHOOSE i \in DOMAIN UpperCase : UpperCase[i] = c]
  ELSE c

\* str.lower(): every character mapped, the length kept
lower(s) == SubSeq([i \in 1..Len(s) |-> lower_char(s[i])], 1, Len(s))

\* p occurs in s at index i
MatchAt(s, p, i) ==
  /\ i >= 1
  /\ i + Len(p) - 1 <= Len(s)
  /\ \A k \in 1..Len(p) : s[i + k - 1] = p[k]

\* index of the leftmost occurrence of p in s at or after from; 0 if none
Find(s, p, from) ==
  LET hits == {i \in from..(Len(s) - Len(p) + 1) : MatchAt(s, p, i)}
  IN IF hits = {} THEN 0 ELSE Min(hits)

\* p in s
contains(s, p) == Find(s, p, 1) # 0

\* str.strip(chars)
strip_chars(s, chars) ==
  LET keep == {i \in 1..Len(s) : s[i] \notin chars}
  IN IF keep = {} THEN <<>> ELSE SubSeq(s, Min(keep), Max(keep))

\* str.strip()
strip(s) == strip_chars(s, Whitespace)

\* sep.join(parts)
RECURSIVE join(_, _)
join(sep, parts) ==
  IF Len(parts) = 0 THEN <<>>
  ELSE IF Len(parts) = 1 THEN parts[1]
  ELSE parts[1] \o sep \o join(sep, Tail(parts))

\* first index at or after i that holds no whitespace (\s* is greedy)
SkipWhitespace(s, i) ==
  LET stop == {k \in i..Len(s) : s[k] \notin Whitespace}
  IN IF stop = {} THEN Len(s) + 1 ELSE Min(stop)

\* first index at or after i that holds a newline (. matches all but \n)
LineEnd(s, i) ==
  LET nl == {k \in i..Len(s) : s[k] = "\n"}
  IN IF nl = {} THEN Len(s) + 1 ELSE Min(nl)

\* re.findall(label + r"\s*(.*)", text, re.IGNORECASE) from index pos on:
\* the groups of the non-overlapping matches, left to right
RECURSIVE findall_from(_, _, _)
findall_from(text, label, pos) ==
  LET at == Find(lower(text), lower(label), pos)
  IN IF at = 0 THEN <<>>
     ELSE LET first == SkipWhitespace(text, at + Len(label))
              last == LineEnd(text, first)
          IN <<SubSeq(text, first, last - 1)>> \o findall_from(text, label, last)

findall(text, label) == findall_from(text, label, 1)

\* ------------------------------------------------------------------------
\* Stage 1: generate_medical_summary
\* ------------------------------------------------------------------------
S_pain_in_my_neck == <<"p", "a", "i", "n", " ", "i", "n", " ", "m", "y", " ", "n", "e", "c", "k">>
S_neck_pain == <<"n", "e", "c", "k", " ", "p", "a", "i", "n">>
S_pain_in_my == <<"p", "a", "i", "n", " ", "i", "n", " ", "m", "y">>
S_back == <<"b", "a", "c", "k">>
S_back_pain == <<"b", "a", "c", "k", " ", "p", "a", "i", "n">>
S_hit_my_head == <<"h", "i", "t", " ", "m", "y", " ", "h", "e", "a", "d">>
S_whiplash_injury == <<"w", "h", "i", "p", "l", "a", "s", "h", " ", "i", "n", "j", "u", "r", "y">>
S_ten_sessions == <<"t", "e", "n", " ", "s", "e", "s", "s", "i", "o", "n", "s", " ", "o", "f", " ", "p", "h", "y", "s", "i", "o", "t", "h", "e", "r", "a", "p", "y">>
S_painkillers == <<"p", "a", "i", "n", "k", "i", "l", "l", "e", "r", "s">>
S_occasional_backaches == <<"o", "c", "c", "a", "s", "i", "o", "n", "a", "l", " ", "b", "a", "c", "k", "a", "c", "h", "e", "s">>
S_full_recovery == <<"f", "u", "l", "l", " ", "r", "e", "c", "o", "v", "e", "r", "y", " ", "w", "i", "t", "h", "i", "n", " ", "s", "i", "x", " ", "m", "o", "n", "t", "h", "s">>

\* re.search(r"pain in my neck|neck pain", transcript, re.IGNORECASE)
search_neck(transcript) ==
  \/ contains(lower(transcript), S_pain_in_my_neck)
  \/ contains(lower(transcript), S_neck_pain)

\* re.search(r"pain in my.+back|back pain", transcript, re.IGNORECASE):
\* .+ is one or more characters of one line
search_back(transcript) ==
  LET low == lower(transcript)
      heads == {i \in 1..Len(low) : MatchAt(low, S_pain_in_my, i)}
      tails == {j \in 1..Len(low) : MatchAt(low, S_back, j)}
  IN \/ \E i \in heads : \E j \in tails :
          /\ j >= i + Len(S_pain_in_my) + 1
          /\ \A k \in (i + Len(S_pain_in_my))..(j - 1) : low[k] # "\n"
     \/ contains(low, S_back_pain)

\* re.search(r"hit my head", transcript, re.IGNORECASE)
search_head(transcript) == contains(lower(transcript), S_hit_my_head)

\* variant: the test without .lower()
has_whiplash_case_sensitive(transcript) == contains(transcript, S_whiplash_injury)

has_whiplash(transcript) == contains(lower(transcript), S_whiplash_injury)
has_physiotherapy(transcript) == contains(lower(transcript), S_ten_sessions)
has_painkillers(transcript) == contains(lower(transcript), S_painkillers)
has_backaches(transcript) == contains(lower(transcript), S_occasional_backaches)
has_full_recovery(transcript) == contains(lower(transcript), S_full_recovery)

\* variant: one dict shared by all calls, so the lists of the summary handed
\* out last are the lists the next call appends to
NewSummary_shared ==
  [Patient_Name |-> "Ms. Jones",
   Symptoms |-> IF held = None THEN <<>> ELSE held.summary.Symptoms,
   Diagnosis |-> "Not mentioned",
   Treatment |-> IF held = None THEN <<>> ELSE held.summary.Treatment,
   Current_Status |-> "Not mentioned",
   Prognosis |-> "Not mentioned"]

\* the dict the summary starts from: fresh lists on every call
NewSummary ==
  [Patient_Name |-> "Ms. Jones",
   Symptoms |-> <<>>,
   Diagnosis |-> "Not mentioned",
   Treatment |-> <<>>,
   Current_Status |-> "Not mentioned",
   Prognosis |-> "Not mentioned"]

\* variant: the symptom rules as an if/elif chain, the others unchanged
generate_medical_summary_elif(transcript) ==
  LET s0 == NewSummary
      s3 == IF search_neck(transcript)
            THEN [s0 EXCEPT !.Symptoms = Append(@, "Neck pain")]
            ELSE IF search_back(transcript)
            THEN [s0 EXCEPT !.Symptoms = Append(@, "Back pain")]
            ELSE IF search_head(transcript)
            THEN [s0 EXCEPT !.Symptoms = Append(@, "Head impact")] ELSE s0
      s4 == IF has_whiplash(transcript)
            THEN [s3 EXCEPT !.Diagnosis = "Whiplash injury"] ELSE s3
      s5 == IF has_physiotherapy(transcript)
            THEN [s4 EXCEPT !.Treatment = Append(@, "10 physiotherapy sessions")] ELSE s4
      s6 == IF has_painkillers(transcript)
            THEN [s5 EXCEPT !.Treatment = Append(@, "Painkillers")] ELSE s5
      s7 == IF has_backaches(transcript)
            THEN [s6 EXCEPT !.Current_Status = "Occasional backaches"] ELSE s6
      s8 == IF has_full_recovery(transcript)
            THEN [s7 EXCEPT !.Prognosis = "Full recovery expected within six months"] ELSE s7
  IN s8

\* the eight if-statements, in source order
generate_medical_summary(transcript) ==
  LET s0 == NewSummary
      s1 == IF search_neck(transcript)
            THEN [s0 EXCEPT !.Symptoms = Append(@, "Neck pain")] ELSE s0
      s2 == IF search_back(transcript)
            THEN [s1 EXCEPT !.Symptoms = Append(@, "Back pain")] ELSE s1
      s3 == IF search_head(transcript)
            THEN [s2 EXCEPT !.Symptoms = Append(@, "Head impact")] ELSE s2
      s4 == IF has_whiplash(transcript)
            THEN [s3 EXCEPT !.Diagnosis = "Whiplash injury"] ELSE s3
      s5 == IF has_physiotherapy(transcript)
            THEN [s4 EXCEPT !.Treatment = Append(@, "10 physiotherapy sessions")] ELSE s4
      s6 == IF has_painkillers(transcript)
            THEN [s5 EXCEPT !.Treatment = Append(@, "Painkillers")] ELSE s5
      s7 == IF has_backaches(transcript)
            THEN [s6 EXCEPT !.Current_Status = "Occasional backaches"] ELSE s6
      s8 == IF has_full_recovery(transcript)
            THEN [s7 EXCEPT !.Prognosis = "Full recovery expected within six months"] ELSE s7
  IN s8

\* ------------------------------------------------------------------------
\* Transcripts
\* ------------------------------------------------------------------------
NL == <<"\n">>

\* lines a generated transcript is made of
LineChoices ==
  << <<"P", "a", "t", "i", "e", "n", "t", ":", " ", "h", "i", "t", " ", "m", "y", " ", "h", "e", "a", "d", ",", " ", "n", "e", "c", "k", " ", "p", "a", "i", "n">>,
     <<"p", "a", "t", "i", "e", "n", "t", ":", " ", "s", "o", " ", "W", "o", "r", "r", "i", "e", "d">>,
     <<"P", "h", "y", "s", "i", "c", "i", "a", "n", ":", " ", "W", "h", "i", "p", "l", "a", "s", "h", " ", "I", "n", "j", "u", "r", "y">>,
     <<"P", "a", "t", "i", "e", "n", "t", ":">>,
     <<"[", "P", "h", "y", "s", "i", "c", "a", "l", " ", "E", "x", "a", "m", "i", "n", "a", "t", "i", "o", "n", " ", "C", "o", "n", "d", "u", "c", "t", "e", "d", "]">> >>

JoinLines(ix) == join(NL, [i \in DOMAIN ix |-> LineChoices[ix[i]]])

\* every transcript of at most n of the lines above
TranscriptsUpTo(n) ==
  {JoinLines(ix) : ix \in UNION {[1..k -> DOMAIN LineChoices] : k \in 0..n}}

\* longer conversations: the keyword tie-break example, two keyword lines,
\* a visit that triggers all eight rules, phrases broken by a newline
Conversations ==
  { <<"P", "a", "t", "i", "e", "n", "t", ":", " ", "I", " ", "a", "m", " ", "f", "i", "n", "e", "\n", "P", "a", "t", "i", "e", "n", "t", ":", " ", "I", " ", "a", "m", " ", "w", "o", "r", "r", "i", "e", "d", " ", "a", "b", "o", "u", "t", " ", "t", "h", "i", "s", "\n", "P", "a", "t", "i", "e", "n", "t", ":", " ", "o", "k", " ", "b", "y", "e">>,
    <<"P", "a", "t", "i", "e", "n", "t", ":", " ", "t", "h", "a", "t", " ", "i", "s", " ", "G", "R", "E", "A", "T", "\n", "P", "h", "y", "s", "i", "c", "i", "a", "n", ":", " ", "o", "k", "\n", "P", "a", "t", "i", "e", "n", "t", ":", " ", "I", " ", "w", "a", "s", " ", "s", "c", "a", "r", "e", "d">>,
    <<"P", "h", "y", "s", "i", "c", "i", "a", "n", ":", " ", "H", "o", "w", " ", "a", "r", "e", " ", "y", "o", "u", "?", "\n", "P", "a", "t", "i", "e", "n", "t", ":", " ", "I", " ", "h", "i", "t", " ", "m", "y", " ", "h", "e", "a", "d", " ", "a", "n", "d", " ", "f", "e", "l", "t", " ", "p", "a", "i", "n", " ", "i", "n", " ", "m", "y", " ", "n", "e", "c", "k", " ", "a", "n", "d", " ", "b", "a", "c", "k", ".", "\n", "P", "a", "t", "i", "e", "n", "t", ":", " ", "I", "t", " ", "w", "a", "s", " ", "a", " ", "w", "h", "i", "p", "l", "a", "s", "h", " ", "i", "n", "j", "u", "r", "y", ".", "\n", "P", "a", "t", "i", "e", "n", "t", ":", " ", "I", "t", " ", "w", "a", "s", " ", "r", "o", "u", "g", "h", ",", " ", "I", " ", "t", "o", "o", "k", " ", "p", "a", "i", "n", "k", "i", "l", "l", "e", "r", "s", " ", "a", "n", "d", " ", "h", "a", "d", " ", "t", "e", "n", " ", "s", "e", "s", "s", "i", "o", "n", "s", " ", "o", "f", " ", "p", "h", "y", "s", "i", "o", "t", "h", "e", "r", "a", "p", "y", ".", "\n", "P", "a", "t", "i", "e", "n", "t", ":", " ", "I", " ", "g", "e", "t", " ", "o", "c", "c", "a", "s", "i", "o", "n", "a", "l", " ", "b", "a", "c", "k", "a", "c", "h", "e", "s", ".", "\n", "[", "P", "h", "y", "s", "i", "c", "a", "l", " ", "E", "x", "a", "m", "i", "n", "a", "t", "i", "o", "n", " ", "C", "o", "n", "d", "u", "c", "t", "e", "d", "]", "\n", "P", "h", "y", "s", "i", "c", "i", "a", "n", ":", " ", "I", " ", "e", "x", "p", "e", "c", "t", " ", "a", " ", "f", "u", "l", "l", " ", "r", "e", "c", "o", "v", "e", "r", "y", " ", "w", "i", "t", "h", "i", "n", " ", "s", "i", "x", " ", "m", "o", "n", "t", "h", "s", ".">>,
    <<"P", "a", "t", "i", "e", "n", "t", ":", " ", "p", "a", "i", "n", " ", "i", "n", " ", "m", "y", "\n", "b", "a", "c", "k", ",", " ", "w", "h", "i", "p", "l", "a", "s", "h", "\n", "i", "n", "j", "u", "r", "y">> }

Transcripts == TranscriptsUpTo(MaxLines) \cup Conversations

\* transcripts a caller summarises directly and keeps the summary of
ProbeTranscripts == TranscriptsUpTo(MaxProbeLines) \cup Conversations

\* ------------------------------------------------------------------------
\* Stage 2: analyze_sentiment_intent
\* ------------------------------------------------------------------------
SPEAKER_Patient == <<"P", "a", "t", "i", "e", "n", "t">>
SPEAKER_Physician == <<"P", "h", "y", "s", "i", "c", "i", "a", "n">>
COLON == <<":">>

Keywords == << <<"w", "o", "r", "r", "i", "e", "d">>, <<"s", "c", "a", "r", "e", "d">>, <<"r", "e", "l", "i", "e", "f">>, <<"g", "r", "e", "a", "t">>, <<"r", "o", "u", "g", "h">> >>

SentimentLabels == <<"Anxious", "Neutral", "Reassured", "Concerned">>
IntentLabels == <<"Seeking reassurance", "Reporting symptoms", "Expressing relief">>

\* re.findall(r"Patient:\s*(.*)", transcript, re.IGNORECASE)
patient_lines(transcript) == findall(transcript, SPEAKER_Patient \o COLON)

\* any(word in line.lower() for word in [...])
any_keyword(line) == \E w \in DOMAIN Keywords : contains(lower(line), Keywords[w])

\* variant: the for loop without its break, so the last keyword line wins
RECURSIVE scan_lines_no_break(_, _, _)
scan_lines_no_break(lines, i, default) ==
  IF i > Len(lines) THEN default
  ELSE scan_lines_no_break(lines, i + 1,
                           IF any_keyword(lines[i]) THEN lines[i] ELSE default)

\* the for loop: the first line with a keyword breaks out, else the default stays
RECURSIVE scan_lines(_, _, _)
scan_lines(lines, i, default) ==
  IF i > Len(lines) THEN default
  ELSE IF any_keyword(lines[i]) THEN lines[i]
  ELSE scan_lines(lines, i + 1, default)

\* expressive_line, for a non-empty list: the default is patient_lines[-1]
select_expressive_line(lines) == scan_lines(lines, 1, lines[Len(lines)])

\* stand-in for the zero-shot classifier: a function of (text, candidate
\* labels) whose top label is one of the candidates
top_label(text, candidate_labels) ==
  candidate_labels[(Len(text) % Len(candidate_labels)) + 1]

NO_DIALOGUE == [Error |-> "No patient dialogue found."]

\* ------------------------------------------------------------------------
\* Stage 3: generate_soap_note
\* ------------------------------------------------------------------------
SENTINEL == <<"N", "o", "t", " ", "m", "e", "n", "t", "i", "o", "n", "e", "d", " ", "i", "n", " ", "t", "h", "e", " ", "p", "r", "o", "v", "i", "d", "e", "d", " ", "c", "o", "n", "t", "e", "x", "t", ".">>
OBSERVATIONS == <<"P", "a", "t", "i", "e", "n", "t", " ", "i", "s", " ", "a", "l", "e", "r", "t", " ", "a", "n", "d", " ", "o", "r", "i", "e", "n", "t", "e", "d", ",", " ", "r", "e", "c", "o", "u", "n", "t", "s", " ", "e", "v", "e", "n", "t", "s", " ", "c", "l", "e", "a", "r", "l", "y", ".">>
EXAM_MARKER == <<"[", "P", "h", "y", "s", "i", "c", "a", "l", " ", "E", "x", "a", "m", "i", "n", "a", "t", "i", "o", "n", " ", "C", "o", "n", "d", "u", "c", "t", "e", "d", "]">>
SPACE == <<" ">>
QUOTE == {"\""}

\* " ".join(re.findall(rf"{speaker}:\s*(.*)", transcript, re.IGNORECASE))
get_dialogue_by_speaker(transcript, speaker) ==
  join(SPACE, findall(transcript, speaker \o COLON))

\* variant: the search without re.DOTALL, so the group ends with the line
objective_text_one_line(transcript) ==
  LET at == Find(transcript, EXAM_MARKER, 1)
  IN IF at = 0 THEN <<>>
     ELSE strip(SubSeq(transcript, at + Len(EXAM_MARKER),
                       LineEnd(transcript, at + Len(EXAM_MARKER)) - 1))

\* re.search(r"\[Physical Examination Conducted\](.*)", transcript, re.DOTALL):
\* group(1).strip() of the leftmost match, "" without a match
objective_text(transcript) ==
  LET at == Find(transcript, EXAM_MARKER, 1)
  IN IF at = 0 THEN <<>>
     ELSE strip(SubSeq(transcript, at + Len(EXAM_MARKER), Len(transcript)))

\* the model-backed fields in the order the dict literal evaluates them
SoapFields ==
  <<"Chief_Complaint", "History_of_Present_Illness", "Physical_Exam",
    "Diagnosis", "Prognosis", "Treatment", "Follow_Up">>

FieldNames ==
  <<"Chief Complaint", "History of Present Illness", "Physical Exam Findings",
    "Diagnosis", "Prognosis", "Treatment Plan", "Follow-Up Plan">>

\* variant: the Diagnosis field is asked over the patient's text
field_context_swapped(t, i) ==
  LET patient_dialogue == get_dialogue_by_speaker(t, SPEAKER_Patient)
      physician_dialogue == get_dialogue_by_speaker(t, SPEAKER_Physician)
  IN CASE i \in {1, 2, 4} -> patient_dialogue
       [] i = 3 -> objective_text(t)
       [] i \in {5, 7} -> physician_dialogue
       [] i = 6 -> patient_dialogue \o physician_dialogue

\* variant: the Diagnosis field reuses the rule-based diagnosis when the
\* summarizer has already found one
field_context_reuses_summary(t, i) ==
  LET patient_dialogue == get_dialogue_by_speaker(t, SPEAKER_Patient)
      physician_dialogue == get_dialogue_by_speaker(t, SPEAKER_Physician)
  IN CASE i \in {1, 2} -> patient_dialogue
       [] i = 3 -> objective_text(t)
       [] i = 4 -> IF summary # None /\ summary.Diagnosis # "Not mentioned"
                   THEN S_whiplash_injury ELSE physician_dialogue
       [] i \in {5, 7} -> physician_dialogue
       [] i = 6 -> patient_dialogue \o physician_dialogue

\* the first argument of the i-th _get_soap_field call
field_context(t, i) ==
  LET patient_dialogue == get_dialogue_by_speaker(t, SPEAKER_Patient)
      physician_dialogue == get_dialogue_by_speaker(t, SPEAKER_Physician)
  IN CASE i \in {1, 2} -> patient_dialogue
       [] i = 3 -> objective_text(t)
       [] i \in {4, 5, 7} -> physician_dialogue
       [] i = 6 -> patient_dialogue \o physician_dialogue

\* variant: no test for an empty context
skips_generation_never(context) == FALSE

\* if not context.strip(): return the sentinel without a query
skips_generation(context) == strip(context) = <<>>

\* stand-in for the text generator: a function of the prompt that answers
\* with the prompt's TEXT in quotes, padded the way model output can be
generated_text(field_name, context) ==
  <<" ", "\"">> \o context \o <<"\"", "\n">>

\* response.strip().strip('"')
clean_response(response) == strip_chars(strip(response), QUOTE)

\* the dict generate_soap_note returns, from the seven field values
soap_note_of(f) ==
  [Subjective |-> [Chief_Complaint |-> f[1], History_of_Present_Illness |-> f[2]],
   Objective |-> [Physical_Exam |-> f[3], Observations |-> OBSERVATIONS],
   Assessment |-> [Diagnosis |-> f[4], Prognosis |-> f[5]],
   Plan |-> [Treatment |-> f[6], Follow_Up |-> f[7]]]

\* ------------------------------------------------------------------------
\* __init__, run_full_analysis and its caller
\* ------------------------------------------------------------------------
\* __init__ loads the two models; nothing has been called yet
Init ==
  /\ zero_shot_classifier = "facebook/bart-large-mnli"
  /\ soap_generator = "google/flan-t5-large"
  /\ pc = "idle"
  /\ full_transcript = <<>>
  /\ summary = None
  /\ sent_pc = "start"
  /\ expressive_line = <<>>
  /\ sentiment_label = ""
  /\ sentiment = None
  /\ soap_fields = <<>>
  /\ soap_note = None
  /\ result = None
  /\ raised = "none"
  /\ classifier_calls = 0
  /\ generator_calls = 0
  /\ held = None

\* variant: run_full_analysis catches the exception and returns the
\* sections it has
propagate_swallowed(capability) ==
  /\ pc' = "done"
  /\ raised' = capability
  /\ result' = [Medical_Summary |-> summary,
                Patient_Sentiment_Analysis |-> sentiment,
                Generated_SOAP_Note |-> soap_note]
  /\ UNCHANGED <<models, full_transcript, summary, sent_pc, expressive_line,
                 sentiment_label, sentiment, soap_fields, soap_note, held>>

\* a capability call fails: nothing in run_full_analysis or the stages
\* catches the exception, so the call ends there and returns nothing
propagate(capability) ==
  /\ pc' = "aborted"
  /\ raised' = capability
  /\ result' = None
  /\ UNCHANGED <<models, full_transcript, summary, sent_pc, expressive_line,
                 sentiment_label, sentiment, soap_fields, soap_note, held>>

\* the caller invokes run_full_analysis(t)
call_run_full_analysis(t) ==
  /\ pc = "idle"
  /\ pc' = "running"
  /\ full_transcript' = t
  /\ UNCHANGED <<models, summary, sent_pc, expressive_line, sentiment_label,
                 sentiment, soap_fields, soap_note, result, raised,
                 classifier_calls, generator_calls, held>>

\* summary = self.generate_medical_summary(transcript)
summary_stage ==
  /\ pc = "running"
  /\ summary = None
  /\ summary' = generate_medical_summary(full_transcript)
  /\ UNCHANGED <<models, pc, full_transcript, sent_pc, expressive_line, sentiment_label,
                 sentiment, soap_fields, soap_note, result, raised,
                 classifier_calls, generator_calls, held>>

\* analyze_sentiment_intent up to and including the sentiment classification
analyze_sentiment_intent ==
  /\ pc = "running"
  /\ sent_pc = "start"
  /\ LET lines == patient_lines(full_transcript)
     IN IF lines = <<>>
        THEN /\ sentiment' = NO_DIALOGUE
             /\ sent_pc' = "returned"
             /\ UNCHANGED <<models, pc, full_transcript, summary, expressive_line,
                            sentiment_label, soap_fields, soap_note, result, raised,
                            classifier_calls, generator_calls, held>>
        ELSE /\ classifier_calls' = classifier_calls + 1
             /\ UNCHANGED generator_calls
             /\ \E ok \in BOOLEAN :
                  IF ok
                  THEN /\ expressive_line' = select_expressive_line(lines)
                       /\ sentiment_label' = top_label(expressive_line', SentimentLabels)
                       /\ sent_pc' = "intent"
                       /\ UNCHANGED <<models, pc, full_transcript, summary, sentiment,
                                      soap_fields, soap_note, result, raised, held>>
                  ELSE propagate("classifier")

\* the intent classification and the return of analyze_sentiment_intent
classify_intent ==
  /\ pc = "running"
  /\ sent_pc = "intent"
  /\ classifier_calls' = classifier_calls + 1
  /\ UNCHANGED generator_calls
  /\ \E ok \in BOOLEAN :
       IF ok
       THEN /\ sentiment' = [Analyzed_Line |-> strip(expressive_line),
                             Sentiment |-> sentiment_label,
                             Intent |-> top_label(expressive_line, IntentLabels)]
            /\ sent_pc' = "returned"
            /\ UNCHANGED <<models, pc, full_transcript, summary, expressive_line,
                           sentiment_label, soap_fields, soap_note, result, raised, held>>
       ELSE propagate("classifier")

\* the next _get_soap_field call of generate_soap_note; the last one
\* completes the dict that generate_soap_note returns
get_soap_field ==
  /\ pc = "running"
  /\ soap_note = None
  /\ LET i == Len(soap_fields) + 1
         context == field_context(full_transcript, i)
         done(value) ==
           /\ soap_fields' = Append(soap_fields, value)
           /\ soap_note' = IF i = Len(SoapFields)
                           THEN soap_note_of(soap_fields') ELSE None
           /\ UNCHANGED <<models, pc, full_transcript, summary, sent_pc, expressive_line,
                          sentiment_label, sentiment, result, raised, held>>
     IN IF skips_generation(context)
        THEN /\ done(SENTINEL)
             /\ UNCHANGED <<classifier_calls, generator_calls>>
        ELSE /\ generator_calls' = generator_calls + 1
             /\ UNCHANGED classifier_calls
             /\ \E ok \in BOOLEAN :
                  IF ok
                  THEN done(clean_response(generated_text(FieldNames[i], context)))
                  ELSE propagate("generator")

\* variant: the no-dialogue error is raised when the results are merged
return_results_error_fatal ==
  /\ pc = "running"
  /\ summary # None
  /\ sent_pc = "returned"
  /\ soap_note # None
  /\ IF sentiment = NO_DIALOGUE
     THEN /\ pc' = "aborted"
          /\ raised' = "classifier"
          /\ UNCHANGED result
     ELSE /\ pc' = "done"
          /\ result' = [Medical_Summary |-> summary,
                        Patient_Sentiment_Analysis |-> sentiment,
                        Generated_SOAP_Note |-> soap_note]
          /\ UNCHANGED raised
  /\ UNCHANGED <<models, full_transcript, summary, sent_pc, expressive_line,
                 sentiment_label, sentiment, soap_fields, soap_note,
                 classifier_calls, generator_calls, held>>

\* return {"Medical_Summary": ..., "Patient_Sentiment_Analysis": ..., "Generated_SOAP_Note": ...}
return_results ==
  /\ pc = "running"
  /\ summary # None
  /\ sent_pc = "returned"
  /\ soap_note # None
  /\ result' = [Medical_Summary |-> summary,
                Patient_Sentiment_Analysis |-> sentiment,
                Generated_SOAP_Note |-> soap_note]
  /\ pc' = "done"
  /\ UNCHANGED <<models, full_transcript, summary, sent_pc, expressive_line,
                 sentiment_label, sentiment, soap_fields, soap_note, raised,
                 classifier_calls, generator_calls, held>>

\* a caller invokes generate_medical_summary(t) itself and keeps the summary
call_generate_medical_summary(t) ==
  /\ pc = "idle"
  /\ held' = [transcript |-> t, summary |-> generate_medical_summary(t)]
  /\ UNCHANGED <<models, pc, full_transcript, summary, sent_pc, expressive_line,
                 sentiment_label, sentiment, soap_fields, soap_note, result, raised,
                 classifier_calls, generator_calls>>

\* the caller is through with the outcome of a run (the record, or the
\* exception) and with the frames of the call, and may call again
caller_continues ==
  /\ pc \in {"done", "aborted"}
  /\ pc' = "idle"
  /\ full_transcript' = <<>>
  /\ summary' = None
  /\ sent_pc' = "start"
  /\ expressive_line' = <<>>
  /\ sentiment_label' = ""
  /\ sentiment' = None
  /\ soap_fields' = <<>>
  /\ soap_note' = None
  /\ result' = None
  /\ raised' = "none"
  /\ classifier_calls' = 0
  /\ generator_calls' = 0
  /\ UNCHANGED <<models, held>>

\* run_full_analysis calls the three stages one after the other
Next ==
  \/ \E t \in Transcripts : call_run_full_analysis(t)
  \/ summary_stage
  \/ (summary # None /\ analyze_sentiment_intent)
  \/ (summary # None /\ classify_intent)
  \/ (sent_pc = "returned" /\ get_soap_field)
  \/ return_results
  \/ caller_continues

Spec == Init /\ [][Next]_vars

\* a caller that also uses the summarizer on its own, between runs
NextWithSummaryCalls ==
  \/ Next
  \/ \E t \in ProbeTranscripts : call_generate_medical_summary(t)

SpecWithSummaryCalls == Init /\ [][NextWithSummaryCalls]_vars

\* the three stages taken in any order, their steps interleaved
NextAnyOrder ==
  \/ \E t \in Transcripts : call_run_full_analysis(t)
  \/ summary_stage
  \/ analyze_sentiment_intent
  \/ classify_intent
  \/ get_soap_field
  \/ return_results
  \/ caller_continues

SpecAnyOrder == Init /\ [][NextAnyOrder]_vars

\* ------------------------------------------------------------------------
\* Properties
\* ------------------------------------------------------------------------
\* every character of s is whitespace (also when s is empty)
Blank(s) == \A i \in DOMAIN s : s[i] \in Whitespace

\* p occurs in s when letter case is ignored
ContainsAnyCase(s, p) ==
  \E i \in 1..(Len(s) - Len(p) + 1) :
    \A k \in 1..Len(p) : lower_char(s[i + k - 1]) = lower_char(p[k])

\* p occurs in s, letter for letter
ContainsExactly(s, p) ==
  \E i \in 1..(Len(s) - Len(p) + 1) : \A k \in 1..Len(p) : s[i + k - 1] = p[k]

\* the sentiment stage has selected its line
LineSelected == sent_pc = "intent" \/ (sent_pc = "returned" /\ sentiment # NO_DIALOGUE)

KeywordLinesAnyCase(lines) ==
  {i \in DOMAIN lines : \E w \in DOMAIN Keywords : ContainsAnyCase(lines[i], Keywords[w])}

KeywordLinesExactly(lines) ==
  {i \in DOMAIN lines : \E w \in DOMAIN Keywords : ContainsExactly(lines[i], Keywords[w])}

\* C1 as stated: the selected line is the first patient line that contains
\* one of the keywords as written, and the last patient line if none does.
C1_FirstKeywordLineAsWritten ==
  LineSelected =>
    LET lines == patient_lines(full_transcript)
        hits == KeywordLinesExactly(lines)
    IN expressive_line = IF hits = {} THEN lines[Len(lines)] ELSE lines[Min(hits)]

\* C1 amended: the selected line is the first patient line, in transcript
\* order, that contains one of the keywords in any letter case; if no patient
\* line does, it is the last patient line. The returned Analyzed_Line is that
\* line, stripped.
C1_FirstKeywordLineAnyCase ==
  LineSelected =>
    LET lines == patient_lines(full_transcript)
        hits == KeywordLinesAnyCase(lines)
    IN /\ lines # <<>>
       /\ expressive_line = IF hits = {} THEN lines[Len(lines)] ELSE lines[Min(hits)]
       /\ sent_pc = "returned" => sentiment.Analyzed_Line = strip(expressive_line)

\* three patient lines, the keyword in the second: the second is selected
C1_Witness ==
  /\ sent_pc = "returned"
  /\ sentiment # NO_DIALOGUE
  /\ Len(patient_lines(full_transcript)) = 3
  /\ KeywordLinesAnyCase(patient_lines(full_transcript)) = {2}
  /\ expressive_line = patient_lines(full_transcript)[2]

\* C2: a transcript without any "Patient:" label gets exactly the
\* no-dialogue error from the sentiment stage and the classifier is never
\* invoked; only a failing generator can abort the run, and the record the
\* run returns holds the error beside the summary and the SOAP note.
C2_NoDialogueIsNotFatal ==
  (pc # "idle" /\ ~ContainsAnyCase(full_transcript, SPEAKER_Patient \o COLON)) =>
    /\ classifier_calls = 0
    /\ raised # "classifier"
    /\ sent_pc \in {"start", "returned"}
    /\ sent_pc = "returned" => sentiment = NO_DIALOGUE
    /\ pc = "aborted" => raised = "generator"
    /\ pc = "done" =>
         /\ result.Patient_Sentiment_Analysis = NO_DIALOGUE
         /\ result.Medical_Summary = generate_medical_summary(full_transcript)
         /\ soap_note # None
         /\ result.Generated_SOAP_Note = soap_note

\* a run on a transcript with physician lines only has completed
C2_Witness ==
  /\ pc = "done"
  /\ ~ContainsAnyCase(full_transcript, SPEAKER_Patient \o COLON)
  /\ ContainsAnyCase(full_transcript, SPEAKER_Physician \o COLON)
  /\ result.Patient_Sentiment_Analysis = NO_DIALOGUE
  /\ generator_calls > 0

\* the fields of the note computed so far whose context is not blank
QueriedFields == {i \in DOMAIN soap_fields : ~Blank(field_context(full_transcript, i))}

\* C3: a field whose context slice is blank holds the sentinel and costs no
\* generation call: the calls made are one per computed field with a
\* non-blank context (and the one call that failed, if one did); without a
\* physician line Plan.Follow-Up is the sentinel.
C3_EmptyContextShortCircuit ==
  /\ \A i \in DOMAIN soap_fields :
       Blank(field_context(full_transcript, i)) => soap_fields[i] = SENTINEL
  /\ generator_calls =
       Cardinality(QueriedFields) + (IF raised = "generator" THEN 1 ELSE 0)
  /\ (soap_note # None /\ ~ContainsAnyCase(full_transcript, SPEAKER_Physician \o COLON)) =>
       soap_note.Plan.Follow_Up = SENTINEL

\* a note for a transcript with patient lines and no physician line
C3_Witness ==
  /\ soap_note # None
  /\ ~ContainsAnyCase(full_transcript, SPEAKER_Physician \o COLON)
  /\ soap_note.Plan.Follow_Up = SENTINEL
  /\ soap_note.Subjective.Chief_Complaint # SENTINEL
  /\ generator_calls > 0

\* C4: a failed capability call ends the run: nothing is returned, not even
\* the sections already computed, no step of the run can follow, the failed
\* call is counted once (no retry) and its value is not replaced.
C4_FailurePropagates ==
  /\ raised # "none" <=> pc = "aborted"
  /\ pc = "aborted" =>
       /\ result = None
       /\ ~ENABLED (summary_stage \/ analyze_sentiment_intent \/ classify_intent
                      \/ get_soap_field \/ return_results)
  /\ raised = "classifier" =>
       /\ sentiment = None
       /\ classifier_calls = (IF sent_pc = "start" THEN 1 ELSE 2)
  /\ raised = "generator" =>
       /\ soap_note = None
       /\ Len(soap_fields) < Len(SoapFields)
       /\ generator_calls = Cardinality(QueriedFields) + 1

\* the generator failed after the summary and the sentiment were computed
C4_Witness ==
  /\ pc = "aborted"
  /\ raised = "generator"
  /\ summary # None
  /\ sentiment # None
  /\ sentiment # NO_DIALOGUE
  /\ Len(soap_fields) > 0
  /\ result = None

\* text follows the examination marker
ExamSliceNonBlank(t) ==
  \E a \in DOMAIN t :
    /\ MatchAt(t, EXAM_MARKER, a)
    /\ \E k \in (a + Len(EXAM_MARKER))..Len(t) : t[k] \notin Whitespace

AllSlicesNonBlank(t) ==
  /\ ~Blank(get_dialogue_by_speaker(t, SPEAKER_Patient))
  /\ ~Blank(get_dialogue_by_speaker(t, SPEAKER_Physician))
  /\ ExamSliceNonBlank(t)

\* C5 as stated: at most six generation calls per note, and exactly six when
\* the patient, physician and exam slices are all non-blank.
C5_SixQueries ==
  /\ generator_calls <= 6
  /\ (soap_note # None /\ AllSlicesNonBlank(full_transcript)) => generator_calls = 6

\* C5 amended: the note has seven model-backed fields: at most seven
\* generation calls per note, and exactly seven when the patient, physician
\* and exam slices are all non-blank.
C5_SevenQueries ==
  /\ generator_calls <= 7
  /\ (soap_note # None /\ AllSlicesNonBlank(full_transcript)) => generator_calls = 7

\* a completed note of a transcript with all three slices
C5_Witness ==
  /\ soap_note # None
  /\ AllSlicesNonBlank(full_transcript)
  /\ generator_calls = 7

\* what analyze_sentiment_intent returns for t when the classifier answers
SentimentOf(t) ==
  LET lines == patient_lines(t)
  IN IF lines = <<>> THEN NO_DIALOGUE
     ELSE [Analyzed_Line |-> strip(select_expressive_line(lines)),
           Sentiment |-> top_label(select_expressive_line(lines), SentimentLabels),
           Intent |-> top_label(select_expressive_line(lines), IntentLabels)]

\* what generate_soap_note returns for t when the generator answers
SoapNoteOf(t) ==
  soap_note_of([i \in DOMAIN SoapFields |->
                  IF skips_generation(field_context(t, i)) THEN SENTINEL
                  ELSE clean_response(generated_text(FieldNames[i], field_context(t, i)))])

\* C6: whatever order the steps of the three stages are taken in, a
\* completed run returns the record that depends on the transcript alone,
\* and the two loaded models are never written.
C6_StagesIndependent ==
  /\ zero_shot_classifier = "facebook/bart-large-mnli"
  /\ soap_generator = "google/flan-t5-large"
  /\ pc = "done" =>
       result = [Medical_Summary |-> generate_medical_summary(full_transcript),
                 Patient_Sentiment_Analysis |-> SentimentOf(full_transcript),
                 Generated_SOAP_Note |-> SoapNoteOf(full_transcript)]

\* the SOAP note is complete before the summarizer and the sentiment stage ran
C6_Witness ==
  /\ pc = "running"
  /\ soap_note # None
  /\ generator_calls > 0
  /\ summary = None
  /\ sent_pc = "start"
  /\ patient_lines(full_transcript) # <<>>

\* the entries of order whose rule matched, in the order of order
RECURSIVE Matched(_, _)
Matched(order, matches) ==
  IF order = <<>> THEN <<>>
  ELSE (IF matches[1] THEN <<order[1]>> ELSE <<>>) \o Matched(Tail(order), Tail(matches))

\* C7: Symptoms holds the matching rules' entries in the order Neck pain,
\* Back pain, Head impact and Treatment in the order 10 physiotherapy
\* sessions, Painkillers, each once, whichever other rules match and
\* wherever the phrases stand in the transcript.
C7_ListsInRuleOrder ==
  summary # None =>
    /\ summary.Symptoms =
         Matched(<<"Neck pain", "Back pain", "Head impact">>,
                 <<search_neck(full_transcript), search_back(full_transcript), search_head(full_transcript)>>)
    /\ summary.Treatment =
         Matched(<<"10 physiotherapy sessions", "Painkillers">>,
                 <<has_physiotherapy(full_transcript), has_painkillers(full_transcript)>>)

\* all five list rules matched, with "hit my head" written before the neck
\* pain and the painkillers before the physiotherapy
C7_Witness ==
  /\ summary # None
  /\ summary.Symptoms = <<"Neck pain", "Back pain", "Head impact">>
  /\ summary.Treatment = <<"10 physiotherapy sessions", "Painkillers">>
  /\ Find(lower(full_transcript), S_hit_my_head, 1) < Find(lower(full_transcript), S_pain_in_my_neck, 1)
  /\ Find(lower(full_transcript), S_painkillers, 1) < Find(lower(full_transcript), S_ten_sessions, 1)

\* C8: Diagnosis is "Whiplash injury" exactly when the transcript contains
\* "whiplash injury" in some letter case, and "Not mentioned" otherwise.
C8_DiagnosisRule ==
  summary # None =>
    summary.Diagnosis = IF ContainsAnyCase(full_transcript, S_whiplash_injury)
                        THEN "Whiplash injury" ELSE "Not mentioned"

\* the phrase in capitals, next to a symptom rule that matched as well
C8_Witness ==
  /\ summary # None
  /\ summary.Diagnosis = "Whiplash injury"
  /\ ~ContainsExactly(full_transcript, S_whiplash_injury)
  /\ summary.Symptoms # <<>>

\* the context slice the field-to-context table gives the i-th field
TableContext(t, i) ==
  LET patient == get_dialogue_by_speaker(t, SPEAKER_Patient)
      physician == get_dialogue_by_speaker(t, SPEAKER_Physician)
  IN CASE SoapFields[i] \in {"Chief_Complaint", "History_of_Present_Illness"} -> patient
       [] SoapFields[i] = "Physical_Exam" -> objective_text(t)
       [] SoapFields[i] \in {"Diagnosis", "Prognosis", "Follow_Up"} -> physician
       [] SoapFields[i] = "Treatment" -> patient \o physician

\* C9: every field of a note is computed from the slice the table assigns
\* it (the sentinel for a blank slice, else the cleaned answer to the query
\* over that slice), and Observations is the same constant in every note.
C9_FieldContexts ==
  /\ \A i \in DOMAIN soap_fields :
       soap_fields[i] =
         IF Blank(TableContext(full_transcript, i)) THEN SENTINEL
         ELSE clean_response(generated_text(FieldNames[i], TableContext(full_transcript, i)))
  /\ soap_note # None =>
       /\ soap_note = soap_note_of(soap_fields)
       /\ soap_note.Objective.Observations = OBSERVATIONS
       /\ generator_calls <= Len(SoapFields)

\* a note whose three slices are non-blank and differ from one another
C9_Witness ==
  /\ soap_note # None
  /\ AllSlicesNonBlank(full_transcript)
  /\ soap_note.Subjective.Chief_Complaint # soap_note.Assessment.Diagnosis
  /\ soap_note.Objective.Physical_Exam # soap_note.Assessment.Diagnosis
  /\ soap_note.Plan.Treatment # soap_note.Subjective.Chief_Complaint
  /\ soap_note.Plan.Treatment # soap_note.Assessment.Diagnosis

====
